---- MODULE Spec2Model ----
(***************************************************************************)
(* pycot: Commitments of Traders reports.                                  *)
(*                                                                         *)
(* A model of src/pycot/reports.py: the CommitmentsOfTraders class, its    *)
(* lru_cache-memoized properties, the fragment fetch/assembly, the         *)
(* normalizer (format_dataframe), the per-family derivations and the       *)
(* contract selector (get_contract).                                       *)
(*                                                                         *)
(* Tables are sequences of rows; a row is a function from column names to  *)
(* cells.  Raw cells are the strings of the downloaded text file; floats   *)
(* are integers with one value, NaN, set aside for "not a number".         *)
(***************************************************************************)
EXTENDS Integers, Sequences, FiniteSets, TLC

\* ------------------------------------------------------------------ bounds

\* instances the callers of SpecLRU construct
MaxInstLRU == 130
\* rows of the legacy archive the remote site serves
MaxLegacyRows == 2
\* objects a run of Spec allocates: the caller's instance and the throwaway
\* instances its family properties make
MaxObjects == 3
\* date.today().year: the last year of the yearly-fragment loop
CurrentYear == 2018
\* cell patterns a raw row is drawn from
MaxProfile == 2

\* ------------------------------------------------------- program constants

\* range(2017, date.today().year + 1): first year of the yearly-fragment loop
FirstYear == 2017
\* functools.lru_cache used bare (@lru_cache): maxsize is its default, 128
LRU_MAXSIZE == 128
\* if response.status_code == 404
HTTP_NOT_FOUND == 404
\* np.nan: the float cell that holds no number
NaN == -100000

\* ------------------------------------------------------------ small helpers

Range(s) == {s[i] : i \in 1..Len(s)}

SeqsUpTo(S, n) == UNION {[1..k -> S] : k \in 0..n}

RECURSIVE Concat(_)
\* the rows of each table of a sequence of tables, in order
Concat(tables) ==
    IF tables = <<>> THEN <<>> ELSE Head(tables) \o Concat(Tail(tables))

Reverse(s) == [i \in 1..Len(s) |-> s[Len(s) + 1 - i]]

\* s without its i-th element
RemoveAt(s, i) == SubSeq(s, 1, i - 1) \o SubSeq(s, i + 1, Len(s))

\* float arithmetic: NaN propagates
FSub(a, b) == IF a = NaN \/ b = NaN THEN NaN ELSE a - b
FMul(a, b) == IF a = NaN \/ b = NaN THEN NaN ELSE a * b

\* --------------------------------------------------------- configuration

\* settings.COT_REPORTS_DATA.keys(): the six registered report types
COT_REPORTS_DATA ==
    { "legacy_fut", "legacy_futopt",
      "disaggregated_fut", "disaggregated_futopt",
      "traders_in_financial_futures_fut", "traders_in_financial_futures_futopt" }

\* the memoized family properties of CommitmentsOfTraders
Families == {"legacy_report", "disaggregated_report", "financial_report"}

\* the two variants each family property accepts
FamilyVariants(f) ==
    CASE f = "legacy_report" -> {"legacy_fut", "legacy_futopt"}
      [] f = "disaggregated_report" -> {"disaggregated_fut", "disaggregated_futopt"}
      [] f = "financial_report" ->
            {"traders_in_financial_futures_fut", "traders_in_financial_futures_futopt"}

\* the variant a family property falls back to when report_type is None
FamilyDefault(f) ==
    CASE f = "legacy_report" -> "legacy_futopt"
      [] f = "disaggregated_report" -> "disaggregated_futopt"
      [] f = "financial_report" -> "traders_in_financial_futures_futopt"

\* the key of settings.FORMAT_COLUMNS each family property reads
FamilyFormat(f) ==
    CASE f = "legacy_report" -> "legacy_format"
      [] f = "disaggregated_report" -> "disaggregated_format"
      [] f = "financial_report" -> "traders_in_financial_futures_format"

\* settings.FORMAT_COLUMNS: per format, the ordered (canonical name, source
\* column) pairs.  The canonical names are the ones reports.py reads; the
\* source columns are the headers of the published text files.
FORMAT_COLUMNS ==
    [ legacy_format |->
        << <<"Date", "As_of_Date_In_Form_YYYY-MM-DD">>,
           <<"Contract Name", "Market_and_Exchange_Names">>,
           <<"Noncommercial Long", "NonComm_Positions_Long_All">>,
           <<"Noncommercial Short", "NonComm_Positions_Short_All">>,
           <<"Noncommercial Long, Change", "Change_in_NonComm_Long_All">>,
           <<"Noncommercial Short, Change", "Change_in_NonComm_Short_All">>,
           <<"Noncommercial Long, % of OI", "Pct_of_OI_NonComm_Long_All">>,
           <<"Noncommercial Short, % of OI", "Pct_of_OI_NonComm_Short_All">> >>,
      disaggregated_format |->
        << <<"Date", "Report_Date_as_YYYY-MM-DD">>,
           <<"Contract Name", "Market_and_Exchange_Names">>,
           <<"Other Reportable Long", "Other_Rept_Positions_Long_All">>,
           <<"Other Reportable Short", "Other_Rept_Positions_Short_All">>,
           <<"Other Reportable Long, Change", "Change_in_Other_Rept_Long_All">>,
           <<"Other Reportable Short, Change", "Change_in_Other_Rept_Short_All">>,
           <<"Other Reportable Long, % of OI", "Pct_of_OI_Other_Rept_Long_All">>,
           <<"Other Reportable Short, % of OI", "Pct_of_OI_Other_Rept_Short_All">>,
           <<"Managed Money Long", "M_Money_Positions_Long_All">>,
           <<"Managed Money Short", "M_Money_Positions_Short_All">>,
           <<"Managed Money Long, Change", "Change_in_M_Money_Long_All">>,
           <<"Managed Money Short, Change", "Change_in_M_Money_Short_All">>,
           <<"Managed Money Long, % of OI", "Pct_of_OI_M_Money_Long_All">>,
           <<"Managed Money Short, % of OI", "Pct_of_OI_M_Money_Short_All">> >>,
      traders_in_financial_futures_format |->
        << <<"Date", "Report_Date_as_YYYY-MM-DD">>,
           <<"Contract Name", "Market_and_Exchange_Names">>,
           <<"Asset Manager Long", "Asset_Mgr_Positions_Long_All">>,
           <<"Asset Manager Short", "Asset_Mgr_Positions_Short_All">>,
           <<"Asset Manager Long, Change", "Change_in_Asset_Mgr_Long_All">>,
           <<"Asset Manager Short, Change", "Change_in_Asset_Mgr_Short_All">>,
           <<"Asset Manager Long, % of OI", "Pct_of_OI_Asset_Mgr_Long_All">>,
           <<"Asset Manager Short, % of OI", "Pct_of_OI_Asset_Mgr_Short_All">>,
           <<"Leveraged Money Long", "Lev_Money_Positions_Long_All">>,
           <<"Leveraged Money Short", "Lev_Money_Positions_Short_All">>,
           <<"Leveraged Money Long, Change", "Change_in_Lev_Money_Long_All">>,
           <<"Leveraged Money Short, Change", "Change_in_Lev_Money_Short_All">>,
           <<"Leveraged Money Long, % of OI", "Pct_of_OI_Lev_Money_Long_All">>,
           <<"Leveraged Money Short, % of OI", "Pct_of_OI_Lev_Money_Short_All">> >> ]

\* names, columns = zip(*settings.FORMAT_COLUMNS[fmt].items())
Unzip(items, side) == [k \in 1..Len(items) |-> items[k][side]]
MappingNames(fmt) == Unzip(FORMAT_COLUMNS[fmt], 1)
MappingColumns(fmt) == Unzip(FORMAT_COLUMNS[fmt], 2)

\* the format of the text file a report type's archives hold
FormatOf(rt) ==
    CASE rt \in FamilyVariants("legacy_report") -> "legacy_format"
      [] rt \in FamilyVariants("disaggregated_report") -> "disaggregated_format"
      [] OTHER -> "traders_in_financial_futures_format"

\* ------------------------------------------------------ the remote site

\* the contract names the remote files may hold, in ascending (np.sort) order,
\* and last one name no file holds
ContractNames == <<"BBG COMMODITY", "FED FUNDS", "UNLISTED">>

\* the report dates of the remote files as written in them, oldest first,
\* and the day number pd.to_datetime gives each
DateStrings == <<"2016-12-27", "2017-01-03", "2018-01-02">>
DateOrdinals == <<17162, 17169, 17533>>

Years == FirstYear..CurrentYear

\* the futures-and-options variants: their files hold other figures than
\* the futures-only files
FutOptTypes ==
    {"legacy_futopt", "disaggregated_futopt", "traders_in_financial_futures_futopt"}

\* the text of the k-th mapped column of a row of profile p in rt's file:
\* "." where the site publishes no figure
RawCell(rt, k, p) ==
    IF (k + p) % 3 = 0 THEN "."
    ELSE ToString(k * k + p * k + (IF rt \in FutOptTypes THEN 1 ELSE 0))

\* a column of every published file that no format maps
UnmappedColumn == "CFTC_Contract_Market_Code"

\* one line of rt's text file, whose mapped columns are columns, the
\* dropped-th of them left out of the file: a cell per column of the file
RawRowOf(rt, r, columns, dropped) ==
    [c \in {columns[k] : k \in (1..Len(columns)) \ dropped} \cup {UnmappedColumn} |->
        IF c = UnmappedColumn THEN "001602"
        ELSE LET index == CHOOSE k \in 1..Len(columns) : columns[k] = c
             IN  IF index = 1 THEN r.date
                 ELSE IF index = 2 THEN r.name
                 ELSE RawCell(rt, index, r.p)]

\* pd.read_csv of one line of rt's text file
RawRow(rt, r, dropped) == RawRowOf(rt, r, MappingColumns(FormatOf(rt)), dropped)

\* extract_text_file_to_dataframe: the table of the text file of the archive
\* a response holds
extract_text_file_to_dataframe(rt, response) ==
    [i \in 1..Len(response.rows) |-> RawRow(rt, response.rows[i], response.dropped)]

\* ---------------------------------------------------------- call outcomes

Raise(exc) ==
    [kind |-> "raise", exc |-> exc, named |-> {}, table |-> <<>>, names |-> <<>>]
\* raise InvalidReportType("Please use one of the following report types: ...")
RaiseInvalidReportType(named) ==
    [kind |-> "raise", exc |-> "InvalidReportType", named |-> named,
     table |-> <<>>, names |-> <<>>]
Return(table) ==
    [kind |-> "return", exc |-> "", named |-> {}, table |-> table, names |-> <<>>]
ReturnNames(names) ==
    [kind |-> "return", exc |-> "", named |-> {}, table |-> <<>>, names |-> names]
\* raise ValueError(f"No data found for the selected report type: {report_type}")
RaiseNoData(report_type) ==
    [kind |-> "raise", exc |-> "ValueError", named |-> {report_type},
     table |-> <<>>, names |-> <<>>]
\* no call of get_reports made
NotRead ==
    [kind |-> "", exc |-> "", named |-> {}, table |-> <<>>, names |-> <<>>]

\* a fetched yearly fragment: None (no table) or a table
None == [present |-> FALSE, table |-> <<>>]
Some(table) == [present |-> TRUE, table |-> table]

\* one requests.get: the legacy archive (year 0) or a year's archive of rt
Fetch(rt, year) == [report_type |-> rt, year |-> year]

\* ------------------------------------------------------------- normalizer

\* pd.to_datetime of a date cell
to_datetime(cell) ==
    DateOrdinals[CHOOSE k \in 1..Len(DateStrings) : DateStrings[k] = cell]

\* the largest figure a file holds
MaxFigure == 14 * 14 + MaxProfile * 14 + 1

\* the figures a file may hold, as written and as numbers
FigureValue ==
    [s \in {ToString(n) : n \in 0..MaxFigure} |->
        CHOOSE n \in 0..MaxFigure : ToString(n) = s]

\* df.replace(".", np.nan) then astype(float) of one cell
ToFloat(cell) ==
    IF cell = "." \/ cell = "nan" THEN NaN ELSE FigureValue[cell]

\* format_dataframe: project onto the mapped source columns (reindex fills a
\* missing one with nan), rename them, parse the dates, make every other
\* column but the contract name a float
format_dataframe(data, names, columns) ==
    LET Index(n) == CHOOSE k \in 1..Len(names) : names[k] = n
        Cell(row, n) ==
            IF columns[Index(n)] \in DOMAIN row THEN row[columns[Index(n)]] ELSE "nan"
    IN  [i \in 1..Len(data) |->
            [n \in Range(names) |->
                IF n = "Date" THEN to_datetime(Cell(data[i], n))
                ELSE IF n = "Contract Name" THEN Cell(data[i], n)
                ELSE ToFloat(Cell(data[i], n))]]

\* ------------------------------------------------------ derivation engine

\* df[net] = df[long] - df[short], on one row
WithNet(row, net, long, short) == (net :> FSub(row[long], row[short])) @@ row

\* df[short] = df[short] * -1, on one row
Negated(row, short) == [row EXCEPT ![short] = FMul(@, -1)]

\* the short column negated first, the nets computed from what is left
LegacyDeriveNegateFirst(row) ==
    LET r0 == Negated(row, "Noncommercial Short")
        r1 == WithNet(r0, "Net Position, Large Spec",
                      "Noncommercial Long", "Noncommercial Short")
        r2 == WithNet(r1, "Net Change, Large Spec",
                      "Noncommercial Long, Change", "Noncommercial Short, Change")
    IN  WithNet(r2, "Net % of OI, Large Spec",
                "Noncommercial Long, % of OI", "Noncommercial Short, % of OI")

\* legacy_report: the three net columns, then the short column negated
LegacyDerive(row) ==
    LET r1 == WithNet(row, "Net Position, Large Spec",
                      "Noncommercial Long", "Noncommercial Short")
        r2 == WithNet(r1, "Net Change, Large Spec",
                      "Noncommercial Long, Change", "Noncommercial Short, Change")
        r3 == WithNet(r2, "Net % of OI, Large Spec",
                      "Noncommercial Long, % of OI", "Noncommercial Short, % of OI")
    IN  Negated(r3, "Noncommercial Short")

\* disaggregated_report: the same for Other Reportable, then for Managed Money
DisaggregatedDerive(row) ==
    LET r1 == WithNet(row, "Net Position Other Rept",
                      "Other Reportable Long", "Other Reportable Short")
        r2 == WithNet(r1, "Net Change Other Rept",
                      "Other Reportable Long, Change", "Other Reportable Short, Change")
        r3 == WithNet(r2, "Net % of OI Other Rept",
                      "Other Reportable Long, % of OI", "Other Reportable Short, % of OI")
        r4 == Negated(r3, "Other Reportable Short")
        r5 == WithNet(r4, "Net Position Managed Money",
                      "Managed Money Long", "Managed Money Short")
        r6 == WithNet(r5, "Net Change Managed Money",
                      "Managed Money Long, Change", "Managed Money Short, Change")
        r7 == WithNet(r6, "Net % of OI Managed Money",
                      "Managed Money Long, % of OI", "Managed Money Short, % of OI")
    IN  Negated(r7, "Managed Money Short")

\* financial_report: the same for Asset Manager, then for Leveraged Money
FinancialDerive(row) ==
    LET r1 == WithNet(row, "Net Position Asset Mgr",
                      "Asset Manager Long", "Asset Manager Short")
        r2 == WithNet(r1, "Net Change Asset Mgr",
                      "Asset Manager Long, Change", "Asset Manager Short, Change")
        r3 == WithNet(r2, "Net % of OI Asset Mgr",
                      "Asset Manager Long, % of OI", "Asset Manager Short, % of OI")
        r4 == Negated(r3, "Asset Manager Short")
        r5 == WithNet(r4, "Net Position Lev Money",
                      "Leveraged Money Long", "Leveraged Money Short")
        r6 == WithNet(r5, "Net Change Lev Money",
                      "Leveraged Money Long, Change", "Leveraged Money Short, Change")
        r7 == WithNet(r6, "Net % of OI Lev Money",
                      "Leveraged Money Long, % of OI", "Leveraged Money Short, % of OI")
    IN  Negated(r7, "Leveraged Money Short")

\* the derivation of family f, on every row of the normalized table
Derive(f, df) ==
    [i \in 1..Len(df) |->
        CASE f = "legacy_report" -> LegacyDerive(df[i])
          [] f = "disaggregated_report" -> DisaggregatedDerive(df[i])
          [] f = "financial_report" -> FinancialDerive(df[i])]

RECURSIVE sort_index(_)
\* df.sort_index(): the orders of the rows that ascend by Date.  The default
\* sort is not stable, so rows of one date may come out in any order.
sort_index(df) ==
    IF df = <<>> THEN {<<>>}
    ELSE LET Earliest(i) == \A j \in 1..Len(df) : df[i]["Date"] <= df[j]["Date"]
         IN  UNION { { <<df[i]>> \o rest : rest \in sort_index(RemoveAt(df, i)) }
                     : i \in {k \in 1..Len(df) : Earliest(k)} }

\* df.sort_index(), the reversal forgotten
SortedNotReversed(df) == sort_index(df)

\* df.sort_index()[::-1]
SortedReversed(df) == {Reverse(s) : s \in sort_index(df)}

\* ------------------------------------------------------- contract selector

\* Python values a caller may pass as contract_name
PyNone == [kind |-> "none", s |-> "", items |-> <<>>]
PyStr(s) == [kind |-> "str", s |-> s, items |-> <<>>]
PyInt(s) == [kind |-> "int", s |-> s, items |-> <<>>]
PyTuple(items) == [kind |-> "tuple", s |-> "", items |-> items]
PyList(items) == [kind |-> "list", s |-> "", items |-> items]

\* a check that looks into the tuple: a str, or a tuple of str only
IsStrOrTupleOfStr(contract_name) ==
    \/ contract_name.kind = "str"
    \/ /\ contract_name.kind = "tuple"
       /\ \A k \in 1..Len(contract_name.items) : contract_name.items[k].kind = "str"

\* isinstance(contract_name, (str, tuple))
IsStrOrTuple(contract_name) == contract_name.kind \in {"str", "tuple"}

\* df[df["Contract Name"] == contract]
RowsOf(df, contract) ==
    IF contract.kind = "str"
    THEN SelectSeq(df, LAMBDA row : row["Contract Name"] = contract.s)
    ELSE <<>>

\* contract in df["Contract Name"].unique()
InUnique(df, contract) ==
    contract.kind = "str" /\ \E i \in 1..Len(df) : df[i]["Contract Name"] = contract.s

\* the tuple form as df[df["Contract Name"].isin(contract_name)]: the rows of
\* the requested names in the table's order
get_contractIsin(df, contract_name) ==
    IF contract_name.kind = "str" THEN Return(RowsOf(df, contract_name))
    ELSE Return(SelectSeq(df, LAMBDA row :
                    \E k \in 1..Len(contract_name.items) :
                        row["Contract Name"] = contract_name.items[k].s))

\* get_contract: the rows of one name, or of each present name of a tuple in
\* the order given; pd.concat of an empty list raises ValueError
get_contract(df, contract_name) ==
    IF contract_name.kind = "str" THEN Return(RowsOf(df, contract_name))
    ELSE LET present == SelectSeq(contract_name.items, LAMBDA c : InUnique(df, c))
             data == [k \in 1..Len(present) |-> RowsOf(df, present[k])]
         IN  IF data = <<>> THEN Raise("ValueError") ELSE Return(Concat(data))

\* ------------------------------------------------------------------ state

VARIABLES
    \* the CommitmentsOfTraders objects constructed so far, by identity (index):
    \* report_type, and whether the caller holds it (user) or a family
    \* property made it for its own use
    objects,
    \* the six lru_cache stores of the class, each least recently used first
    cache,
    \* what the remote site serves: the legacy archive and each year's
    remote,
    \* the last call since the site last changed: operation, instance, family
    \* property read, argument,
    \* the requests it sent, what get_reports gave it and its outcome
    last,
    \* history: the instances whose report() has returned a table
    served,
    \* history: per family property, the instances on which reading it has
    \* returned a table, the one that did so longest ago first
    used

vars == <<objects, cache, remote, last, served, used>>

\* report_type=None, the constructor's default
ReportTypeNone == "<None>"

\* ------------------------------------------------------------- lru_cache

\* the key of a memoized method call on an object: the object itself
KeyOf(i) == [id |-> i, report_type |-> objects[i].report_type]

\* two keys equal when their objects' report types are: a memoization on the
\* report type instead of the object
KeyEqByReportType(a, b) == a.report_type = b.report_type

\* equality of two keys.  CommitmentsOfTraders defines neither __eq__ nor
\* __hash__: an instance equals only itself
KeyEq(a, b) == a.id = b.id

InCache(c, key, arg) ==
    \E k \in 1..Len(c) : KeyEq(c[k].key, key) /\ c[k].arg = arg

Position(c, key, arg) ==
    CHOOSE k \in 1..Len(c) : KeyEq(c[k].key, key) /\ c[k].arg = arg

CacheValue(c, key, arg) == c[Position(c, key, arg)].val

\* a hit makes the entry the most recently used
CacheHit(c, key, arg) ==
    RemoveAt(c, Position(c, key, arg)) \o <<c[Position(c, key, arg)]>>

\* a store that holds one entry: lru_cache(maxsize=1)
CacheInsertMaxsizeOne(c, key, arg, val) ==
    Append(IF Len(c) >= 1 THEN Tail(c) ELSE c,
           [key |-> key, arg |-> arg, val |-> val])

\* a miss stores the result; a full cache drops its least recently used entry
CacheInsert(c, key, arg, val) ==
    Append(IF Len(c) >= LRU_MAXSIZE THEN Tail(c) ELSE c,
           [key |-> key, arg |-> arg, val |-> val])

RECURSIVE CacheInsertAll(_, _)
CacheInsertAll(c, entries) ==
    IF entries = <<>> THEN c
    ELSE CacheInsertAll(
            CacheInsert(c, Head(entries).key, Head(entries).arg, Head(entries).val),
            Tail(entries))

\* ------------------------------------------------------ fragment assembler

\* get_legacy_report: the legacy archive of the report type
get_legacy_report(rt) ==
    IF rt \notin COT_REPORTS_DATA THEN RaiseInvalidReportType(COT_REPORTS_DATA)
    ELSE IF remote.legacy.status >= 400 THEN Raise("HTTPError")
    ELSE Return(extract_text_file_to_dataframe(rt, remote.legacy))

\* a year's archive fetched like the legacy one: raise_for_status on every
\* answer, 404 included
get_reports_by_yearRaiseForStatus(rt, year) ==
    IF rt \notin COT_REPORTS_DATA
    THEN [kind |-> "raise", exc |-> "InvalidReportType", val |-> None]
    ELSE IF remote.years[year].status >= 400
    THEN [kind |-> "raise", exc |-> "HTTPError", val |-> None]
    ELSE [kind |-> "return", exc |-> "",
          val |-> Some(extract_text_file_to_dataframe(rt, remote.years[year]))]

\* get_reports_by_year: a year's archive; None when the site answers 404
get_reports_by_year(rt, year) ==
    IF rt \notin COT_REPORTS_DATA
    THEN [kind |-> "raise", exc |-> "InvalidReportType", val |-> None]
    ELSE IF remote.years[year].status = HTTP_NOT_FOUND
    THEN [kind |-> "return", exc |-> "", val |-> None]
    ELSE IF remote.years[year].status = 200
    THEN [kind |-> "return", exc |-> "",
          val |-> Some(extract_text_file_to_dataframe(rt, remote.years[year]))]
    ELSE [kind |-> "raise", exc |-> "BadZipFile", val |-> None]

\* the years from the current one down to 2017
YearRangeDescending == [k \in 1..(CurrentYear + 1 - FirstYear) |-> CurrentYear + 1 - k]

\* range(2017, date.today().year + 1)
YearRange == [k \in 1..(CurrentYear + 1 - FirstYear) |-> FirstYear + k - 1]

\* pd.concat([legacy_data] + current_data) of get_reports on the object o,
\* given what get_legacy_report and each get_reports_by_year(year) did: the
\* yearly fragments are read in ascending order until one raises.  With the
\* requests sent and the entries each memoized method stored on the way.
\* The object o is reachable from nowhere but these entries, so no later
\* call can hit them: they are kept with their keys, in their stores' order,
\* and without the tables nothing can read.
Assemble(rt, o, legacy_data, current_data) ==
    LET legacy == legacy_data
        yearly == current_data
        failed == {k \in 1..Len(yearly) : yearly[k].kind = "raise"}
        tried == IF legacy.kind = "raise" THEN 0
                 ELSE IF failed = {} THEN Len(yearly)
                 ELSE CHOOSE k \in failed : \A j \in failed : k <= j
        raised == legacy.kind = "raise" \/ failed # {}
        entry(arg) == [key |-> [id |-> o, report_type |-> rt], arg |-> arg, val |-> <<>>]
    IN  [ outcome |->
              IF legacy.kind = "raise" THEN legacy
              ELSE IF raised THEN Raise(yearly[tried].exc)
              ELSE Return(Concat(<<legacy.table>>
                                   \o [k \in 1..Len(yearly) |-> yearly[k].val.table])),
          fetched |-> IF rt \notin COT_REPORTS_DATA THEN <<>>
                      ELSE <<Fetch(rt, 0)>> \o [k \in 1..tried |-> Fetch(rt, YearRange[k])],
          get_legacy_report |->
              IF legacy.kind = "raise" THEN <<>> ELSE <<entry(0)>>,
          get_reports_by_year |->
              [k \in 1..(IF raised THEN tried - 1 ELSE tried) |-> entry(YearRange[k])],
          get_reports |->
              IF raised THEN <<>> ELSE <<entry(0)>> ]

\* get_reports read on the fresh object o of report type rt: the legacy
\* fragment, then each year's, then their concatenation
get_reports(rt, o) ==
    Assemble(rt, o, get_legacy_report(rt),
             [k \in 1..Len(YearRange) |-> get_reports_by_year(rt, YearRange[k])])

\* ------------------------------------------------- the family properties

\* the family property report() and list_available_contracts() read for a
\* report type: the if/elif chain; "" when no branch is taken
FamilyOf(rt) ==
    IF rt \in {"legacy_fut", "legacy_futopt"} THEN "legacy_report"
    ELSE IF rt \in {"disaggregated_fut", "disaggregated_futopt"} THEN "disaggregated_report"
    ELSE IF rt \in {"traders_in_financial_futures_fut",
                    "traders_in_financial_futures_futopt"} THEN "financial_report"
    ELSE ""

\* a check that accepts every registered report type
ValidForRegistered(f, report_type) == report_type \in COT_REPORTS_DATA

\* the check at the head of each family property
ValidFor(f, report_type) == report_type \in FamilyVariants(f)

\* the end of a family property's body: what it leaves behind, and what
\* get_reports gave it
Ended(outcome, objs, stores, fetched, data_df) ==
    [outcome |-> outcome, objects |-> objs, cache |-> stores, fetched |-> fetched,
     data_df |-> data_df]

\* a table that never counts as empty
emptyNever(df) == FALSE

\* data_df.empty
empty(df) == df = <<>>

\* the body of family property f after the validation, data_df being what
\* CommitmentsOfTraders(report_type).get_reports did: refuse an empty
\* table, normalize, derive, sort by date and reverse
Pipeline(f, report_type, data_df) ==
    LET run == data_df
        made == Append(objects, [report_type |-> report_type, user |-> FALSE])
        stores == [cache EXCEPT
                     !.get_legacy_report = CacheInsertAll(@, run.get_legacy_report),
                     !.get_reports_by_year = CacheInsertAll(@, run.get_reports_by_year),
                     !.get_reports = CacheInsertAll(@, run.get_reports)]
        ended == Ended(run.outcome, made, stores, run.fetched, run.outcome)
    IN  IF run.outcome.kind = "raise" THEN {ended}
        ELSE IF empty(run.outcome.table)
        THEN {[ended EXCEPT !.outcome = RaiseNoData(report_type)]}
        ELSE {[ended EXCEPT !.outcome = Return(sorted)]
                : sorted \in SortedReversed(
                      Derive(f, format_dataframe(run.outcome.table,
                                                 MappingNames(FamilyFormat(f)),
                                                 MappingColumns(FamilyFormat(f)))))}

\* the body of family property f on an instance of report type own (a cache
\* miss): default and validate the report type, then read get_reports on a
\* fresh CommitmentsOfTraders(report_type) and go on with what it gives.
\* Each element is one way the body can end: its outcome, the objects and
\* the cache stores it leaves (the result not yet stored) and the requests
\* sent.
FamilyBodyOn(f, report_type) ==
    IF ~ValidFor(f, report_type)
    THEN {Ended(RaiseInvalidReportType(FamilyVariants(f)), objects, cache, <<>>, NotRead)}
    ELSE Pipeline(f, report_type, get_reports(report_type, Len(objects) + 1))

\* the body of family property f on instance i
FamilyBody(i, f) ==
    FamilyBodyOn(f, IF objects[i].report_type = ReportTypeNone
                    THEN FamilyDefault(f) ELSE objects[i].report_type)

\* a family property that is not memoized: every read runs the body
FamilyReadUncached(i, f) ==
    {[r EXCEPT !.cache =
        IF r.outcome.kind = "raise" THEN @
        ELSE [@ EXCEPT ![f] = CacheInsert(@, KeyOf(i), 0, r.outcome.table)]]
      : r \in FamilyBody(i, f)}

\* a memoization that keeps failures too: a body that raised is stored as a
\* table of no rows
FamilyReadFailureStored(i, f) ==
    IF InCache(cache[f], KeyOf(i), 0)
    THEN {[outcome |-> Return(CacheValue(cache[f], KeyOf(i), 0)),
           objects |-> objects,
           cache |-> [cache EXCEPT ![f] = CacheHit(@, KeyOf(i), 0)],
           fetched |-> <<>>,
           data_df |-> NotRead]}
    ELSE {[r EXCEPT !.cache =
              [@ EXCEPT ![f] = CacheInsert(@, KeyOf(i), 0, r.outcome.table)]]
            : r \in FamilyBody(i, f)}

\* reading the memoized property f of instance i (@property @lru_cache): the
\* stored table on a hit; on a miss the body, whose result is stored unless
\* it raised
FamilyRead(i, f) ==
    IF InCache(cache[f], KeyOf(i), 0)
    THEN {[outcome |-> Return(CacheValue(cache[f], KeyOf(i), 0)),
           objects |-> objects,
           cache |-> [cache EXCEPT ![f] = CacheHit(@, KeyOf(i), 0)],
           fetched |-> <<>>,
           data_df |-> NotRead]}
    ELSE {[r EXCEPT !.cache =
              IF r.outcome.kind = "raise" THEN @
              ELSE [@ EXCEPT ![f] = CacheInsert(@, KeyOf(i), 0, r.outcome.table)]]
            : r \in FamilyBody(i, f)}

RECURSIVE unique(_)
\* df["Contract Name"].unique(): each name once, in the order of its first row
unique(df) ==
    IF df = <<>> THEN <<>>
    ELSE LET before == unique(SubSeq(df, 1, Len(df) - 1))
             name == df[Len(df)]["Contract Name"]
         IN  IF name \in Range(before) THEN before ELSE Append(before, name)

\* the place of a name in the order of strings
NameRank(name) == CHOOSE k \in 1..Len(ContractNames) : ContractNames[k] = name

\* the names left in the order they came in
np_sortLeftAsIs(names) == names

RECURSIVE np_sort(_)
\* np.sort: the names in ascending order, each as often as it came
np_sort(names) ==
    IF names = <<>> THEN <<>>
    ELSE LET least == CHOOSE k \in 1..Len(names) :
                          \A j \in 1..Len(names) : NameRank(names[k]) <= NameRank(names[j])
         IN  <<names[least]>> \o np_sort(RemoveAt(names, least))

\* np.sort(df["Contract Name"].unique())
SortedUnique(df) == np_sort(unique(df))

\* --------------------------------------------------------------- actions

UserInstances == {i \in 1..Len(objects) : objects[i].user}

\* the history of uses after reading family property f on instance i ended
\* with outcome
Used(i, f, outcome) ==
    IF outcome.kind = "raise" THEN used
    ELSE [used EXCEPT ![f] = SelectSeq(@, LAMBDA j : j # i) \o <<i>>]

Call(op, i, f, arg, fetched, data_df, outcome) ==
    [op |-> op, inst |-> i, family |-> f, arg |-> arg,
     fetched |-> fetched, data_df |-> data_df, outcome |-> outcome]

\* cot = CommitmentsOfTraders(rt)
Construct(rt) ==
    /\ objects' = Append(objects, [report_type |-> rt, user |-> TRUE])
    /\ last' = Call("__init__", Len(objects) + 1, "", PyNone, <<>>, NotRead, Return(<<>>))
    /\ UNCHANGED <<cache, remote, served, used>>

\* a call that raises before it reads any family property
RaisesEarly(op, i, arg, exc) ==
    /\ last' = Call(op, i, "", arg, <<>>, NotRead, Raise(exc))
    /\ UNCHANGED <<objects, cache, remote, served, used>>

\* cot.report(contract_name) on the user's instance i
Report(i, contract_name) ==
    LET rt == objects[i].report_type
    IN  IF rt = ReportTypeNone THEN RaisesEarly("report", i, contract_name, "ValueError")
        ELSE IF ~IsStrOrTuple(contract_name)
        THEN RaisesEarly("report", i, contract_name, "TypeError")
        ELSE IF FamilyOf(rt) = ""
        THEN RaisesEarly("report", i, contract_name, "UnboundLocalError")
        ELSE \E r \in FamilyRead(i, FamilyOf(rt)) :
                LET outcome == IF r.outcome.kind = "raise" THEN r.outcome
                               ELSE get_contract(r.outcome.table, contract_name)
                IN  /\ objects' = r.objects
                    /\ cache' = r.cache
                    /\ last' = Call("report", i, FamilyOf(rt), contract_name,
                                    r.fetched, r.data_df, outcome)
                    /\ served' = IF outcome.kind = "return" THEN served \cup {i}
                                 ELSE served
                    /\ used' = Used(i, FamilyOf(rt), r.outcome)
                    /\ UNCHANGED remote

\* cot.list_available_contracts() on the user's instance i
ListAvailableContracts(i) ==
    LET rt == objects[i].report_type
    IN  IF rt = ReportTypeNone
        THEN RaisesEarly("list_available_contracts", i, PyNone, "ValueError")
        ELSE IF FamilyOf(rt) = ""
        THEN RaisesEarly("list_available_contracts", i, PyNone, "UnboundLocalError")
        ELSE \E r \in FamilyRead(i, FamilyOf(rt)) :
                /\ objects' = r.objects
                /\ cache' = r.cache
                /\ last' = Call("list_available_contracts", i, FamilyOf(rt), PyNone,
                                r.fetched, r.data_df,
                                IF r.outcome.kind = "raise" THEN r.outcome
                                ELSE ReturnNames(SortedUnique(r.outcome.table)))
                /\ used' = Used(i, FamilyOf(rt), r.outcome)
                /\ UNCHANGED <<remote, served>>

\* cot.legacy_report, cot.disaggregated_report or cot.financial_report read
\* directly on the user's instance i
ReadFamily(i, f) ==
    \E r \in FamilyRead(i, f) :
        /\ objects' = r.objects
        /\ cache' = r.cache
        /\ last' = Call(f, i, f, PyNone, r.fetched, r.data_df, r.outcome)
        /\ used' = Used(i, f, r.outcome)
        /\ UNCHANGED <<remote, served>>

\* ---------------------------------------------------------- the remote data

Row(date, name, p) == [date |-> date, name |-> name, p |-> p]

\* what the site answers a request with: the status and, in the archive, the
\* rows of the text file and the mapped columns (by place in the mapping)
\* the file has lost
Response(status, rows) == [status |-> status, rows |-> rows, dropped |-> {}]

\* the row a year's archive holds when the site has it
YearRow(year) ==
    Row(IF year = FirstYear THEN DateStrings[2] ELSE DateStrings[3],
        ContractNames[1 + (year % 2)], 1 + (year % MaxProfile))

\* the rows a legacy archive is drawn from
LegacyPool ==
    { Row(DateStrings[1], ContractNames[2], 1),
      Row(DateStrings[2], ContractNames[1], MaxProfile) }

\* a site with the legacy rows given, of the years those published and the
\* others answered with 404
Site(rows, published) ==
    [ legacy |-> Response(200, rows),
      years |-> [y \in Years |->
                    IF y \in published THEN Response(200, <<YearRow(y)>>)
                    ELSE Response(HTTP_NOT_FOUND, <<>>)] ]

\* a legacy archive of two rows, the older one first
LegacyRows ==
    << Row(DateStrings[1], ContractNames[2], 1),
       Row(DateStrings[2], ContractNames[1], MaxProfile) >>

\* the sites that answer every request with an archive or, for a year, with
\* 404: any legacy rows in any order with the first year published, and any
\* set of years published with the two legacy rows
PublishedRemotes ==
    { Site(rows, {FirstYear}) : rows \in SeqsUpTo(LegacyPool, MaxLegacyRows) }
        \cup { Site(LegacyRows, published) : published \in SUBSET Years }

\* a site with every archive published
FullSite == Site(LegacyRows, Years)

\* a site with nothing to report: an archive of no rows, no year published
EmptySite == Site(<<>>, {})

\* the sites on which a request fails: the legacy archive answered with 404
\* or 500 (raise_for_status raises), or the last year's with 500 and an
\* error page that is no zip archive
FailingRemotes ==
    { [FullSite EXCEPT !.legacy = Response(status, <<>>)] : status \in {HTTP_NOT_FOUND, 500} }
        \cup { [FullSite EXCEPT !.years[CurrentYear] = Response(500, <<>>)] }

\* the place in each mapping of the first short position column
ShortPlace == 4

\* a site whose files have all lost that column
DriftedSite ==
    [ legacy |-> [FullSite.legacy EXCEPT !.dropped = {ShortPlace}],
      years |-> [y \in Years |-> [FullSite.years[y] EXCEPT !.dropped = {ShortPlace}]] ]

\* the remote sites of Spec
Remotes == PublishedRemotes \cup {EmptySite} \cup FailingRemotes \cup {DriftedSite}

\* ------------------------------------------------------------ the callers

\* the report types a caller constructs an instance with
ReportTypeInputs == COT_REPORTS_DATA \cup {"bogus_type", ReportTypeNone}

\* the contract_name arguments a caller passes
ContractInputs ==
    { PyNone, PyInt("5"),
      PyStr(ContractNames[2]), PyStr(ContractNames[3]),
      PyTuple(<<PyStr(ContractNames[2]), PyStr(ContractNames[1])>>),
      PyTuple(<<PyStr(ContractNames[1]), PyStr(ContractNames[2])>>),
      PyTuple(<<PyStr(ContractNames[3]), PyStr(ContractNames[2])>>),
      PyTuple(<<PyStr(ContractNames[2]), PyStr(ContractNames[2])>>),
      PyTuple(<<PyStr(ContractNames[3])>>),
      PyTuple(<<>>),
      PyTuple(<<PyStr(ContractNames[2]), PyInt("5")>>),
      PyList(<<PyStr(ContractNames[2])>>) }

NoCall == Call("", 0, "", PyNone, <<>>, NotRead, Return(<<>>))

EmptyCache ==
    [ legacy_report |-> <<>>, disaggregated_report |-> <<>>, financial_report |-> <<>>,
      get_reports |-> <<>>, get_legacy_report |-> <<>>, get_reports_by_year |-> <<>> ]

\* the state of a fresh process facing the remote site r
Start(r) ==
    /\ objects = <<>>
    /\ cache = EmptyCache
    /\ remote = r
    /\ last = NoCall
    /\ served = {}
    /\ used = [f \in Families |-> <<>>]

\* ----------------------- Spec: one caller's instance, any remote site

Init == \E r \in Remotes : Start(r)

DoConstruct ==
    \E rt \in ReportTypeInputs :
        UserInstances = {} /\ Construct(rt)

DoReport ==
    \E i \in UserInstances, c \in ContractInputs :
        Report(i, c) /\ Len(objects') <= MaxObjects

DoListAvailableContracts ==
    \E i \in UserInstances :
        ListAvailableContracts(i) /\ Len(objects') <= MaxObjects

DoReadFamily ==
    \E i \in UserInstances, f \in Families :
        ReadFamily(i, f) /\ Len(objects') <= MaxObjects

\* after a call that the site made fail, the site changes: what no table
\* could be made of is gone, every archive is there.  The last call is then
\* none made since.
SitePublishes ==
    /\ remote \in FailingRemotes \cup {EmptySite}
    /\ last.outcome.kind = "raise"
    /\ last.fetched # <<>>
    /\ remote' = FullSite
    /\ last' = NoCall
    /\ UNCHANGED <<objects, cache, served, used>>

Next ==
    \/ DoConstruct
    \/ DoReport
    \/ DoListAvailableContracts
    \/ DoReadFamily
    \/ SitePublishes

Spec == Init /\ [][Next]_vars

\* ------------- SpecLRU: many instances of one report type, one remote site

\* a remote site with one legacy row and no year published yet
LegacyOnlyRemote ==
    [ legacy |-> Response(200, <<Row(DateStrings[1], ContractNames[2], 1)>>),
      years |-> [y \in Years |-> Response(HTTP_NOT_FOUND, <<>>)] ]

InitLRU == Start(LegacyOnlyRemote)

\* the instance the caller made first, and the one made last
FirstInstance ==
    CHOOSE i \in 1..Len(objects) : objects[i].user /\ \A j \in 1..(i - 1) : ~objects[j].user
NewestInstance ==
    CHOOSE i \in 1..Len(objects) :
        objects[i].user /\ \A j \in (i + 1)..Len(objects) : ~objects[j].user

\* the contract_name arguments of the callers of SpecLRU
ContractInputsLRU ==
    { PyStr(ContractNames[2]),
      PyTuple(<<PyStr(ContractNames[2]), PyStr(ContractNames[1])>>) }

\* a caller makes another instance of the report type once the last one made
\* has served a report
ConstructLRU ==
    /\ Cardinality(UserInstances) < MaxInstLRU
    /\ UserInstances # {} => NewestInstance \in served
    /\ Construct("legacy_fut")

\* a caller queries the first instance made or the last
ReportLRU ==
    /\ UserInstances # {}
    /\ \E i \in {FirstInstance, NewestInstance}, c \in ContractInputsLRU : Report(i, c)

NextLRU ==
    \/ ConstructLRU
    \/ ReportLRU

SpecLRU == InitLRU /\ [][NextLRU]_vars

\* ------------------------------------------------------------------ claims

\* the family property the instance i reads in report()
FamilyOfInstance(i) == FamilyOf(objects[i].report_type)

\* the caller's instances on which the body of family property f can return:
\* the only keys the store of f ever holds
Readers(f) ==
    {j \in UserInstances :
        objects[j].report_type \in FamilyVariants(f) \cup {ReportTypeNone}}

\* this step is a report() call on the instance i
ReportsOn(i) == last'.op = "report" /\ last'.inst = i

\* C1, as stated: on an instance whose report() has returned once, every
\* later report() sends no request.  Refuted: after LRU_MAXSIZE other
\* instances have stored their tables the instance's entry is gone, and its
\* next report() fetches again.
C1_Original ==
    [][\A i \in served : ReportsOn(i) => last'.fetched = <<>>]_vars

\* C1, amended: on an instance whose report() has returned once, a later
\* report(c2) finds the instance's table in the store as long as at most
\* LRU_MAXSIZE instances able to read the family property have been
\* constructed in the process; and whenever it
\* finds the table it sends no request, constructs no object, returns
\* get_contract of the stored table and c2, and leaves the stored table as
\* it was.
C1_CachedRepeat ==
    [][\A i \in served : ReportsOn(i) =>
          LET f == FamilyOfInstance(i)
              stored == InCache(cache[f], KeyOf(i), 0)
          IN  /\ Cardinality(Readers(f)) <= LRU_MAXSIZE => stored
              /\ stored =>
                    /\ last'.fetched = <<>>
                    /\ objects' = objects
                    /\ last'.outcome =
                          get_contract(CacheValue(cache[f], KeyOf(i), 0), last'.arg)
                    /\ InCache(cache'[f], KeyOf(i), 0)
                    /\ CacheValue(cache'[f], KeyOf(i), 0)
                          = CacheValue(cache[f], KeyOf(i), 0)]_vars

\* C1's case: with LRU_MAXSIZE instances served, the first one is queried
\* again and answers from the store
C1_Witness ==
    /\ Cardinality(Readers("legacy_report")) = LRU_MAXSIZE
    /\ last.op = "report"
    /\ last.inst = FirstInstance
    /\ last.fetched = <<>>
    /\ last.outcome.kind = "return"
    /\ last.outcome.table # <<>>

\* the instances whose reads stored the tables the store c holds
Keys(c) == {c[k].key.id : k \in 1..Len(c)}

\* the store c holds a table stored by a read on the instance i
HasEntry(c, i) == i \in Keys(c)

\* the pipeline runs made for report type rt: each run past the validation
\* constructs its own CommitmentsOfTraders(rt) to read get_reports on
PipelineRuns(rt) ==
    Cardinality({o \in 1..Len(objects) :
                    ~objects[o].user /\ objects[o].report_type = rt})

\* C2, as stated: process-wide, the pipeline runs at most once per distinct
\* report_type value.  Refuted: the key of the memoized property is the
\* instance, so a second instance of the same report type runs it again.
C2_Original == \A rt \in COT_REPORTS_DATA : PipelineRuns(rt) <= 1

\* C2, amended: the memoization key of a family property is the instance it
\* is read on, never its report type and never the contract filter.  A
\* report() that reads the family property f on instance i sends requests
\* and runs the pipeline exactly when the store of f holds no table stored by
\* a read on i itself, whatever the contract filter and whatever other
\* instances of the same report type have stored; and when it returns, the
\* store holds the table under i.
C2_KeyIsInstance ==
    [][\A i \in UserInstances :
          (ReportsOn(i) /\ last'.family # "") =>
              LET f == last'.family
              IN  /\ (last'.fetched = <<>>) <=> HasEntry(cache[f], i)
                  /\ (Len(objects') > Len(objects)) <=> ~HasEntry(cache[f], i)
                  /\ last'.outcome.kind = "return" => HasEntry(cache'[f], i)]_vars

\* C2's case: a second instance of a report type that a first instance has
\* already been served for is queried, and fetches the fragments again
C2_Witness ==
    /\ last.op = "report"
    /\ last.inst # FirstInstance
    /\ FirstInstance \in served
    /\ objects[last.inst].report_type = objects[FirstInstance].report_type
    /\ HasEntry(cache[last.family], FirstInstance)
    /\ last.fetched # <<>>
    /\ last.outcome.kind = "return"

\* C3, as stated: an entry, once in a store, stays in it.  Refuted: the
\* stores are lru_cache's, of maxsize 128; the 129th key drops the first.
C3_Original ==
    [][\A f \in Families : Keys(cache[f]) \subseteq Keys(cache'[f])]_vars

\* of the instances with a table in the store of f, the one whose last
\* returning read of f is the oldest
LeastRecentlyUsed(f) ==
    LET stored == Keys(cache[f])
    IN  Head(SelectSeq(used[f], LAMBDA j : j \in stored))

\* C3, amended: a store holds at most LRU_MAXSIZE entries.  An entry leaves
\* it only when the store is full and a read on another instance, one with
\* no entry, stores its table; and the entry that leaves is then the one of
\* the least recently used instance: the one whose last returning read is the
\* oldest.  Nothing else removes an entry.
C3_EvictsLeastRecentlyUsed ==
    [][\A f \in Families :
          /\ Len(cache'[f]) <= LRU_MAXSIZE
          /\ Keys(cache[f]) \subseteq Keys(cache'[f])
                \/ /\ Len(cache[f]) = LRU_MAXSIZE
                   /\ last'.family = f
                   /\ ~HasEntry(cache[f], last'.inst)
                   /\ HasEntry(cache'[f], last'.inst)
                   /\ Keys(cache[f]) \ Keys(cache'[f]) = {LeastRecentlyUsed(f)}]_vars

\* C3's case: the store is full, the first instance was queried again, and
\* a later instance's entry, not the first one's, has been dropped
C3_Witness ==
    /\ Len(cache.legacy_report) = LRU_MAXSIZE
    /\ HasEntry(cache.legacy_report, FirstInstance)
    /\ \E j \in served : j # FirstInstance /\ ~HasEntry(cache.legacy_report, j)

\* the report type a read of family property f on instance i works with
ReadType(i, f) ==
    IF objects[i].report_type = ReportTypeNone THEN FamilyDefault(f)
    ELSE objects[i].report_type

\* the last call read a family property directly and got its table
FamilyTableReturned == last.op \in Families /\ last.outcome.kind = "return"

\* the normalized table the last call's family property derived from: the
\* fragments of the remote site assembled and normalized, nothing derived
Normalized ==
    format_dataframe(get_reports(ReadType(last.inst, last.family), 0).outcome.table,
                     MappingNames(FamilyFormat(last.family)),
                     MappingColumns(FamilyFormat(last.family)))

Triple(net, long, short) == [net |-> net, long |-> long, short |-> short]

\* by trader category g: the net position, net change and net % of OI
\* columns named n, each with its long and short column
NetsOf(g, n) ==
    { Triple("Net Position " \o n, g \o " Long", g \o " Short"),
      Triple("Net Change " \o n, g \o " Long, Change", g \o " Short, Change"),
      Triple("Net % of OI " \o n, g \o " Long, % of OI", g \o " Short, % of OI") }

\* the net columns of each family
NetColumns(f) ==
    CASE f = "legacy_report" ->
            { Triple("Net Position, Large Spec",
                     "Noncommercial Long", "Noncommercial Short"),
              Triple("Net Change, Large Spec",
                     "Noncommercial Long, Change", "Noncommercial Short, Change"),
              Triple("Net % of OI, Large Spec",
                     "Noncommercial Long, % of OI", "Noncommercial Short, % of OI") }
      [] f = "disaggregated_report" ->
            NetsOf("Other Reportable", "Other Rept")
                \cup NetsOf("Managed Money", "Managed Money")
      [] f = "financial_report" ->
            NetsOf("Asset Manager", "Asset Mgr") \cup NetsOf("Leveraged Money", "Lev Money")

\* the short position columns of each family
ShortColumns(f) ==
    CASE f = "legacy_report" -> {"Noncommercial Short"}
      [] f = "disaggregated_report" -> {"Other Reportable Short", "Managed Money Short"}
      [] f = "financial_report" -> {"Asset Manager Short", "Leveraged Money Short"}

\* the derived row d is the normalized row n with the nets of the family
\* computed from n's values and the short position columns negated
DerivedFrom(d, n, f) ==
    /\ DOMAIN d = DOMAIN n \cup {t.net : t \in NetColumns(f)}
    /\ \A t \in NetColumns(f) : d[t.net] = FSub(n[t.long], n[t.short])
    /\ \A c \in ShortColumns(f) : d[c] = FMul(n[c], -1)
    /\ \A c \in DOMAIN n \ ShortColumns(f) : d[c] = n[c]

\* C4: in the table a family property returns, every row is a row of the
\* normalized table with each net column equal to its long value minus its
\* short value as normalized (before negation) and each short position
\* column equal to -1 times its normalized value; and every normalized row
\* has such a row.  For all three families.
C4_NetsBeforeNegation ==
    FamilyTableReturned =>
        LET d == last.outcome.table
            n == Normalized
        IN  /\ Len(d) = Len(n)
            /\ \A i \in 1..Len(d) : \E j \in 1..Len(n) :
                    DerivedFrom(d[i], n[j], last.family)
            /\ \A j \in 1..Len(n) : \E i \in 1..Len(d) :
                    DerivedFrom(d[i], n[j], last.family)

\* C4's case: a family table with a row whose short position is a positive
\* figure, negated in the table, next to a net that is not the sum of the
\* table's long and short
C4_Witness ==
    /\ FamilyTableReturned
    /\ \E i \in 1..Len(last.outcome.table) : \E t \in NetColumns(last.family) :
          LET row == last.outcome.table[i]
          IN  /\ t.short \in ShortColumns(last.family)
              /\ row[t.short] # NaN /\ row[t.short] < 0
              /\ row[t.long] # NaN
              /\ row[t.net] = row[t.long] + row[t.short]
              /\ row[t.net] # row[t.long] - row[t.short]

\* the dates of the table never increase from a row to the next
DateDescending(df) ==
    \A i \in 1..Len(df) : \A j \in i..Len(df) : df[i]["Date"] >= df[j]["Date"]

\* C5: the table a family property returns, unfiltered, has its dates in
\* non-increasing order from the first row to the last, whatever the order of
\* the rows in the fragments
C5_DateDescending == FamilyTableReturned => DateDescending(last.outcome.table)

\* C5's case: the legacy fragment lists an earlier date before a later one,
\* and the family table lists the later one first
C5_Witness ==
    /\ FamilyTableReturned
    /\ Len(remote.legacy.rows) >= 2
    /\ to_datetime(remote.legacy.rows[1].date) < to_datetime(remote.legacy.rows[2].date)
    /\ Len(last.outcome.table) >= 2
    /\ last.outcome.table[1]["Date"] > last.outcome.table[Len(last.outcome.table)]["Date"]

\* the names a contract_name argument asks for
Requested(arg) ==
    IF arg.kind = "str" THEN {arg.s} ELSE {arg.items[k].s : k \in 1..Len(arg.items)}

\* the contract names of the rows of a table
NamesIn(df) == {df[i]["Contract Name"] : i \in 1..Len(df)}

\* the last call was report() with a collection of two or more names, and
\* returned a table
CollectionReturned ==
    /\ last.op = "report"
    /\ last.arg.kind = "tuple"
    /\ Len(last.arg.items) >= 2
    /\ last.outcome.kind = "return"

\* C6, as stated: a report filtered by a collection of two or more names
\* (each given once) holds only rows of the requested names, sorted by Date
\* descending over the whole result.  Refuted: each name's rows come as one
\* block, and the second block starts again at that name's latest date.
C6_Original ==
    (CollectionReturned /\ Cardinality(Requested(last.arg)) = Len(last.arg.items)) =>
        /\ NamesIn(last.outcome.table) \subseteq Requested(last.arg)
        /\ DateDescending(last.outcome.table)

\* the table is a sequence of blocks, one for each name in the order given
\* (block[i] is the place in names of the name row i belongs to), and the
\* dates never increase inside a block
SortedWithinBlocks(df, names) ==
    \E block \in [1..Len(df) -> 1..Len(names)] :
        /\ \A i \in 1..Len(df) : df[i]["Contract Name"] = names[block[i]].s
        /\ \A i \in 1..Len(df) : \A j \in i..Len(df) :
              /\ block[i] <= block[j]
              /\ block[i] = block[j] => df[i]["Date"] >= df[j]["Date"]

\* C6, amended: whenever a report filtered by a collection of two or more
\* names returns a table, the table holds only rows of the requested names,
\* in one block per name in the order the names were given, sorted by Date
\* descending inside each block and not over the whole result.
C6_SortedWithinBlocks ==
    CollectionReturned =>
        /\ NamesIn(last.outcome.table) \subseteq Requested(last.arg)
        /\ SortedWithinBlocks(last.outcome.table, last.arg.items)

\* C6's case: both names are in the table with overlapping dates, and the
\* result is not in descending date order as a whole
C6_Witness ==
    /\ CollectionReturned
    /\ NamesIn(last.outcome.table) = Requested(last.arg)
    /\ Cardinality(Requested(last.arg)) = 2
    /\ ~DateDescending(last.outcome.table)

\* the last call was report(), and the family property it read has given
\* its table, which is now in the store
TableRead ==
    /\ last.op = "report"
    /\ last.family # ""
    /\ HasEntry(cache[last.family], last.inst)

\* the full derived table the last report() call selected from
FullTable == CacheValue(cache[last.family], KeyOf(last.inst), 0)

\* C7, as stated: for a collection of names the result is exactly the
\* concatenation, in the order given, of each name's rows in table order,
\* absent names contributing nothing.  Violated where C8 is: when no name
\* of the collection is in the table the call raises instead of returning
\* the empty concatenation.
C7_Original ==
    (TableRead /\ last.arg.kind = "tuple") =>
        last.outcome =
            Return(Concat([k \in 1..Len(last.arg.items) |->
                              RowsOf(FullTable, last.arg.items[k])]))

\* C8, as stated: unknown names never cause an error; a selection none of
\* whose names is in the table, the empty collection included, returns an
\* empty result.  Violated: pd.concat of no tables raises ValueError.
C8_Original ==
    TableRead =>
        /\ last.outcome.kind = "return"
        /\ Requested(last.arg) \cap NamesIn(FullTable) = {} =>
              last.outcome.table = <<>>

C10_Original ==
    (last.op \in {"report", "list_available_contracts"}
        /\ objects[last.inst].report_type \notin COT_REPORTS_DATA \cup {ReportTypeNone}) =>
            /\ last.outcome.kind = "raise"
            /\ \/ last.outcome.exc = "InvalidReportType"
               \/ /\ last.outcome.exc = "TypeError"
                  /\ last.op = "report"
                  /\ last.arg.kind \notin {"str", "tuple"}

\* C11, as stated: report() on an instance of a registered report type with
\* the contract filter omitted (contract_name=None, the default) raises no
\* error of its own and returns the full derived table, unfiltered.
\* Violated: None is neither a str nor a tuple, and report() raises TypeError
\* before it reads the family property.
C11_Original ==
    (last.op = "report"
        /\ objects[last.inst].report_type \in COT_REPORTS_DATA
        /\ last.arg = PyNone) =>
            /\ ~(last.outcome.kind = "raise" /\ last.outcome.exc = "TypeError")
            /\ TableRead => last.outcome = Return(FullTable)

\* the last call was report() on an instance bound to a report type
ReportOnBound ==
    last.op = "report" /\ objects[last.inst].report_type # ReportTypeNone

\* the last call raised TypeError
TypeErrorRaised == last.outcome.kind = "raise" /\ last.outcome.exc = "TypeError"

\* the argument is a string, or a collection (tuple or list) of strings only
StrOrCollectionOfStr(arg) ==
    \/ arg.kind = "str"
    \/ /\ arg.kind \in {"tuple", "list"}
       /\ \A k \in 1..Len(arg.items) : arg.items[k].kind = "str"

\* C12, as stated: report() raises TypeError exactly when the contract
\* filter is neither a string nor a collection of strings.  Refuted: only
\* the type of the argument itself is looked at; a tuple holding a number is
\* accepted, and a list of names is not.
C12_Original ==
    ReportOnBound => (TypeErrorRaised <=> ~StrOrCollectionOfStr(last.arg))

\* C12, amended: on an instance bound to a report type, report() raises
\* TypeError exactly when the contract filter is neither a str nor a tuple
\* (a number, a list, None), and then before anything is fetched.  Every
\* single name and every tuple is accepted, whatever the tuple holds: an
\* element that is not a string is never looked at for its type, and the
\* result is the one for the tuple's string elements alone.
C12_TypeErrorIffNotStrOrTuple ==
    ReportOnBound =>
        /\ TypeErrorRaised <=> last.arg.kind \notin {"str", "tuple"}
        /\ TypeErrorRaised => last.fetched = <<>> /\ last.family = ""
        /\ (TableRead /\ last.arg.kind = "tuple") =>
              last.outcome =
                  get_contract(FullTable,
                      PyTuple(SelectSeq(last.arg.items, LAMBDA c : c.kind = "str")))

\* C12's case: a tuple of a name and a number is accepted, and the rows of
\* the name are returned
C12_Witness ==
    /\ ReportOnBound
    /\ last.arg.kind = "tuple"
    /\ \E k \in 1..Len(last.arg.items) : last.arg.items[k].kind = "int"
    /\ last.outcome.kind = "return"
    /\ last.outcome.table # <<>>

\* the last call read a family property whose body got from get_reports a
\* table of no rows
AssembledEmpty ==
    /\ last.family # ""
    /\ last.data_df.kind = "return"
    /\ last.data_df.table = <<>>

ContractsListed ==
    last.op = "list_available_contracts" /\ last.outcome.kind = "return"

\* C14: list_available_contracts() on an instance bound to a valid report
\* type returns, once the family property has given its table, the contract
\* names of that table: exactly the names that occur in it, each once, in
\* ascending order; at least one whenever the table has a row.
C14_SortedDistinctNames ==
    /\ (last.op = "list_available_contracts"
            /\ last.family # "" /\ HasEntry(cache[last.family], last.inst)) =>
          last.outcome.kind = "return"
    /\ ContractsListed =>
          LET names == last.outcome.names
          IN  /\ HasEntry(cache[last.family], last.inst)
              /\ Range(names) = NamesIn(FullTable)
              /\ \A i \in 1..Len(names) : \A j \in (i + 1)..Len(names) :
                    NameRank(names[i]) < NameRank(names[j])
              /\ FullTable # <<>> => names # <<>>

\* C14's case: the table lists a later name before an earlier one and one
\* name on two rows; the listing has each once, the earlier name first
C14_Witness ==
    /\ ContractsListed
    /\ Len(last.outcome.names) = 2
    /\ Len(FullTable) > 2
    /\ FullTable[1]["Contract Name"] = last.outcome.names[2]

\* the mapped source columns of the family's format that a row of the raw
\* table does not have
MissingColumns(f, data) ==
    {c \in Range(MappingColumns(FamilyFormat(f))) :
        \E i \in 1..Len(data) : c \notin DOMAIN data[i]}

\* C15, as stated: when the raw table lacks a source column the family's
\* mapping names, normalizing fails and the family property returns no
\* table.  Violated: data.reindex(columns=columns) makes the missing column
\* up, filled with NaN, and the table is returned with NaN in that column
\* and in the nets computed from it.
C15_Original ==
    (last.op \in Families
        /\ last.data_df.kind = "return"
        /\ MissingColumns(last.family, last.data_df.table) # {}) =>
            last.outcome.kind = "raise"

\* the last call read a family property whose body got a table from
\* get_reports
Assembled == last.family # "" /\ last.data_df.kind = "return"

\* the rows the text file of an archive of the site holds for rt, in the
\* file's order; none when the site has no such archive
Fragment(rt, response) ==
    IF response.status = 200 THEN extract_text_file_to_dataframe(rt, response)
    ELSE <<>>

RECURSIVE RowsBefore(_, _)
\* the rows of the legacy fragment and of the fragments of the years before
\* year, counted
RowsBefore(rt, year) ==
    IF year = FirstYear THEN Len(Fragment(rt, remote.legacy))
    ELSE RowsBefore(rt, year - 1) + Len(Fragment(rt, remote.years[year - 1]))

\* C16: a get_reports that returns has requested the legacy archive first
\* and then the archive of each year from 2017 to the current year, one
\* request each, in ascending order; and its table is the rows of the legacy
\* file followed by the rows of each year the site has, in ascending year
\* order, each file's rows in the file's order and each row as often as the
\* files hold it: as many rows as the fragments have together.
C16_AssembledInOrder ==
    Assembled =>
        LET rt == ReadType(last.inst, last.family)
            table == last.data_df.table
        IN  /\ Len(last.fetched) = CurrentYear - FirstYear + 2
            /\ last.fetched[1] = Fetch(rt, 0)
            /\ \A y \in Years : last.fetched[y - FirstYear + 2] = Fetch(rt, y)
            /\ Len(table) = RowsBefore(rt, CurrentYear + 1)
            /\ \A i \in 1..Len(Fragment(rt, remote.legacy)) :
                  table[i] = Fragment(rt, remote.legacy)[i]
            /\ \A y \in Years : \A i \in 1..Len(Fragment(rt, remote.years[y])) :
                  table[RowsBefore(rt, y) + i] = Fragment(rt, remote.years[y])[i]

\* C16's case: two legacy rows and two years published; the table has the
\* four rows, the current year's last
C16_Witness ==
    /\ Assembled
    /\ CurrentYear > FirstYear
    /\ Len(remote.legacy.rows) = 2
    /\ \A y \in Years : remote.years[y].status = 200
    /\ Len(last.data_df.table) = 2 + CurrentYear - FirstYear + 1
    /\ last.data_df.table[Len(last.data_df.table)]
          = RawRow(ReadType(last.inst, last.family), YearRow(CurrentYear), {})
    /\ last.data_df.table[1] # last.data_df.table[2]

\* C16's case of a row the files hold twice: both are in the table
C16_WitnessRepeated ==
    /\ Assembled
    /\ Len(remote.legacy.rows) = 2
    /\ remote.legacy.rows[1] = remote.legacy.rows[2]
    /\ Len(last.data_df.table) = 3
    /\ last.data_df.table[1] = last.data_df.table[2]

\* the last call read a family property whose body read get_reports
PipelineRan == last.family # "" /\ last.data_df.kind # ""

\* the years whose archive the site has, in ascending order
FoundYears == SelectSeq(YearRange, LAMBDA y : remote.years[y].status = 200)

\* C17: a year's archive answered with 404 contributes nothing and fails
\* nothing: whatever years answer 404, all of them included, as long as the
\* legacy archive is served and every other year's is, get_reports has
\* requested every year and returns the legacy rows followed by the rows of
\* the years found.  A legacy request answered with an error status (404
\* too) ends the call at once: raise_for_status raises HTTPError, no year
\* is requested, the error reaches the caller and nothing is stored.
C17_NotFoundAbsorbed ==
    PipelineRan =>
        LET rt == ReadType(last.inst, last.family)
        IN  /\ (remote.legacy.status = 200
                  /\ \A y \in Years : remote.years[y].status \in {200, HTTP_NOT_FOUND}) =>
                    /\ last.data_df.kind = "return"
                    /\ Len(last.fetched) = Len(YearRange) + 1
                    /\ last.data_df.table =
                          Concat(<<Fragment(rt, remote.legacy)>>
                                   \o [k \in 1..Len(FoundYears) |->
                                          Fragment(rt, remote.years[FoundYears[k]])])
            /\ remote.legacy.status # 200 =>
                    /\ last.data_df = Raise("HTTPError")
                    /\ last.outcome = Raise("HTTPError")
                    /\ last.fetched = <<Fetch(rt, 0)>>
                    /\ ~HasEntry(cache[last.family], last.inst)

\* C17's case: every year answers 404, and the family property returns a
\* table made of the two legacy rows
C17_Witness ==
    /\ PipelineRan
    /\ \A y \in Years : remote.years[y].status = HTTP_NOT_FOUND
    /\ Len(remote.legacy.rows) = 2
    /\ Len(last.fetched) = Len(YearRange) + 1
    /\ Len(last.data_df.table) = 2
    /\ last.op \in Families
    /\ last.outcome.kind = "return"
    /\ Len(last.outcome.table) = 2

\* C17's case of the legacy archive answered with 404
C17_WitnessLegacyNotFound ==
    /\ PipelineRan
    /\ remote.legacy.status = HTTP_NOT_FOUND
    /\ last.op = "report"
    /\ last.outcome = Raise("HTTPError")

\* this step is a call that reads a family property
ReadsFamily == last'.family # ""

\* the family property read in this step raised: the call raised, and not
\* in get_contract, after the property had given its table
FamilyRaised == last'.outcome.kind = "raise" /\ last'.outcome # Raise("ValueError")

\* the site serves the legacy archive and each year's or 404, with a row
SiteServes ==
    /\ remote.legacy.status = 200
    /\ \A y \in Years : remote.years[y].status \in {200, HTTP_NOT_FOUND}
    /\ remote.legacy.rows # <<>>

\* C18: a read of a family property that raises (invalid report type, the
\* legacy request refused, a year's archive unreadable after earlier
\* fragments were fetched, or no rows) stores nothing in the property's
\* store, which is left as it was, without an entry of the instance.  And a
\* read on an instance without an entry, of a valid report type, runs the
\* body again whatever ran before: on a fresh CommitmentsOfTraders object,
\* from the legacy request on; on a site that serves, it requests the legacy
\* archive and every year again, returns, and stores the table.
C18_FailuresNotMemoized ==
    [][ReadsFamily =>
          LET f == last'.family
              i == last'.inst
              rt == ReadType(i, f)
          IN  /\ FamilyRaised =>
                    /\ cache'[f] = cache[f]
                    /\ ~HasEntry(cache'[f], i)
              /\ (~HasEntry(cache[f], i) /\ rt \in FamilyVariants(f)) =>
                    /\ Len(objects') = Len(objects) + 1
                    /\ last'.fetched # <<>>
                    /\ last'.fetched[1] = Fetch(rt, 0)
                    /\ SiteServes =>
                          /\ Len(last'.fetched) = Len(YearRange) + 1
                          /\ ~FamilyRaised
                          /\ HasEntry(cache'[f], i)]_vars

\* C18's case: a read of a family property failed at the last year's
\* archive, after the legacy and the first year's were fetched and stored
\* for the object that read them; the site then serves, and the next read
\* on the instance has fetched every fragment again and returned
C18_Witness ==
    /\ last.family # ""
    /\ last.outcome.kind = "return"
    /\ Len(last.fetched) = Len(YearRange) + 1
    /\ PipelineRuns(ReadType(last.inst, last.family)) = 2
    /\ Len(cache.get_legacy_report) = 2
    /\ Len(cache.get_reports) = 1
    /\ Len(cache[last.family]) = 1

====
